---------------------------- MODULE Spec2Model ----------------------------
(***************************************************************************)
(* Model of src/app.py: the AI news digest server.                         *)
(*                                                                         *)
(* A Python str is a sequence of one-character strings.  The fixed         *)
(* Russian sentences of the program are kept as one-element sequences      *)
(* holding the sentence transliterated to ASCII.  None is the one-element  *)
(* sequence <<"None">>, which no text of the model equals.                 *)
(***************************************************************************)
EXTENDS Integers, Sequences, FiniteSets, TLC

VARIABLES
    \* the threaded HTTP server (Spec, SpecRequest)
    pc,          \* pc[r]: where thread r is in Handler.do_GET
    target,      \* target[r]: self.path, the request target
    route,       \* target[r]'s route, the local variable of do_GET
    upstream,    \* what urlopen(...).read() gave thread r
    items,       \* the local variable items of do_GET
    sent,        \* sent[r]: the responses thread r has started, in order
    reads,       \* reads[r]: the static files thread r has read
    clock,       \* the UTC instant datetime.now(timezone.utc) returns
    \* fetch_ai_news as a function of the feed document (SpecFetch)
    xml,         \* the feed document
    limit,       \* the argument limit
    fetched,     \* what fetch_ai_news returned or raised
    \* build_daily_summary as a function of the items (SpecSummary)
    news_items,  \* the argument news_items
    frequent,    \* the local variable frequent
    summary,     \* the string returned
    phase        \* "server", or "input" while an argument is built and "called" after the call

server_vars  == <<pc, target, route, upstream, items, sent, reads, clock>>
fetch_vars   == <<xml, limit, fetched>>
summary_vars == <<news_items, frequent, summary>>
vars == <<pc, target, route, upstream, items, sent, reads, clock,
          xml, limit, fetched, news_items, frequent, summary, phase>>

----------------------------------------------------------------------------
(* Bounds of the model *)

NumThreads == 2     \* request threads of the ThreadingHTTPServer
MaxClock == 1       \* instants the clock runs through
MaxFeed == 2        \* children of the channel chosen freely
MaxNews == 3        \* items handed to build_daily_summary

(* Constants of the program *)

MAX_ITEMS == 10

STOP_WORDS ==
    \* "ai", "artificial", "intelligence", "the", "a", "an", "and"
    { <<"a","i">>, <<"a","r","t","i","f","i","c","i","a","l">>, <<"i","n","t","e","l","l","i","g","e","n","c","e">>, <<"t","h","e">>, <<"a">>, <<"a","n">>, <<"a","n","d">>,
      \* "to", "of", "in", "for", "on", "with", "is", "are", "at"
      <<"t","o">>, <<"o","f">>, <<"i","n">>, <<"f","o","r">>, <<"o","n">>, <<"w","i","t","h">>, <<"i","s">>, <<"a","r","e">>, <<"a","t">>,
      \* "from", "by", "as", "new", "says"
      <<"f","r","o","m">>, <<"b","y">>, <<"a","s">>, <<"n","e","w">>, <<"s","a","y","s">> }

None == <<"None">>

Min(a, b) == IF a < b THEN a ELSE b

----------------------------------------------------------------------------
(* str methods *)

Whitespace == {" ", "\t", "\n", "\r"}

RECURSIVE lstrip(_)
lstrip(s) ==
    IF s # << >> /\ Head(s) \in Whitespace THEN lstrip(Tail(s)) ELSE s

RECURSIVE rstrip(_)
rstrip(s) ==
    IF s # << >> /\ s[Len(s)] \in Whitespace
    THEN rstrip(SubSeq(s, 1, Len(s) - 1))
    ELSE s

\* str.strip(): leading and trailing whitespace removed
strip(s) == rstrip(lstrip(s))

\* "ABCDEFGHIJKLMNOPQRSTUVWXYZ"
UPPER == <<"A","B","C","D","E","F","G","H","I","J","K","L","M","N","O","P","Q","R","S","T","U","V","W","X","Y","Z">>
\* "abcdefghijklmnopqrstuvwxyz"
LOWER == <<"a","b","c","d","e","f","g","h","i","j","k","l","m","n","o","p","q","r","s","t","u","v","w","x","y","z">>

lower_char(c) ==
    IF \E i \in 1..Len(UPPER) : UPPER[i] = c
    THEN LOWER[CHOOSE i \in 1..Len(UPPER) : UPPER[i] = c]
    ELSE c

\* str.lower()
lower(s) == [i \in 1..Len(s) |-> lower_char(s[i])]

RECURSIVE join(_, _)
\* sep.join(xs)
join(sep, xs) ==
    IF xs = << >> THEN << >>
    ELSE IF Len(xs) = 1 THEN xs[1]
    ELSE xs[1] \o sep \o join(sep, Tail(xs))

IsPrefixAt(s, i, old) ==
    /\ i + Len(old) - 1 <= Len(s)
    /\ SubSeq(s, i, i + Len(old) - 1) = old

RECURSIVE replace_from(_, _, _, _)
replace_from(s, i, old, new) ==
    IF i > Len(s) THEN << >>
    ELSE IF IsPrefixAt(s, i, old)
         THEN new \o replace_from(s, i + Len(old), old, new)
         ELSE <<s[i]>> \o replace_from(s, i + 1, old, new)

\* str.replace(old, new), old not empty
replace(s, old, new) == replace_from(s, 1, old, new)

\* "0123456789"
Digits == <<"0","1","2","3","4","5","6","7","8","9">>

RECURSIVE str_int(_)
\* str(n) of a natural number
str_int(n) ==
    IF n < 10 THEN <<Digits[n + 1]>>
    ELSE str_int(n \div 10) \o <<Digits[(n % 10) + 1]>>

----------------------------------------------------------------------------
(* build_daily_summary *)

Letters == {LOWER[i] : i \in 1..Len(LOWER)} \cup {UPPER[i] : i \in 1..Len(UPPER)}
WordChars == Letters \cup {"-", "'"}

RECURSIVE MatchEnd(_, _)
\* the last position of the run of [A-Za-z\-'] that starts at i
MatchEnd(s, i) ==
    IF i <= Len(s) /\ s[i] \in WordChars THEN MatchEnd(s, i + 1) ELSE i - 1

RECURSIVE re_findall_from(_, _)
re_findall_from(s, i) ==
    IF i > Len(s) THEN << >>
    ELSE IF s[i] \in Letters /\ i < Len(s) /\ s[i + 1] \in WordChars
         THEN LET e == MatchEnd(s, i + 1)
              IN  <<SubSeq(s, i, e)>> \o re_findall_from(s, e + 1)
         ELSE re_findall_from(s, i + 1)

\* re.findall(r"[A-Za-z][A-Za-z\-']+", s): the non-overlapping matches, left to right
re_findall(s) == re_findall_from(s, 1)

RECURSIVE CounterKeys(_)
\* the keys of Counter(ws), in the order they were first inserted
CounterKeys(ws) ==
    IF ws = << >> THEN << >>
    ELSE LET r == CounterKeys(SubSeq(ws, 1, Len(ws) - 1))
             w == ws[Len(ws)]
         IN  IF \E i \in 1..Len(r) : r[i] = w THEN r ELSE Append(r, w)

CountOf(ws, w) == Cardinality({i \in 1..Len(ws) : ws[i] = w})

\* Counter(ws).items(): <<word, count>> pairs in insertion order
Counter(ws) ==
    LET keys == CounterKeys(ws)
    IN  [k \in 1..Len(keys) |-> <<keys[k], CountOf(ws, keys[k])>>]

RECURSIVE sorted_by_count(_)
\* sorted(pairs, key=count, reverse=True): stable, so equal counts keep their order
sorted_by_count(ps) ==
    IF ps = << >> THEN << >>
    ELSE LET r == sorted_by_count(SubSeq(ps, 1, Len(ps) - 1))
             x == ps[Len(ps)]
             p == Cardinality({i \in 1..Len(r) : r[i][2] >= x[2]})
         IN  SubSeq(r, 1, p) \o <<x>> \o SubSeq(r, p + 1, Len(r))

\* Counter.most_common(n)
most_common(ps, n) ==
    LET s == sorted_by_count(ps) IN SubSeq(s, 1, Min(n, Len(s)))

\* titles and words of build_daily_summary
title_words(its) ==
    LET titles == join(<<" ">>, [i \in 1..Len(its) |-> its[i].title])
    IN  re_findall(lower(titles))

\* a changed frequent_topics: the stop words are dropped before the cut to 6
frequent_topics_filter_first(words) ==
    LET ranked == sorted_by_count(Counter(words))
        kept   == SelectSeq([i \in 1..Len(ranked) |-> ranked[i][1]],
                            LAMBDA w : w \notin STOP_WORDS)
        top    == SubSeq(kept, 1, Min(6, Len(kept)))
    IN  SubSeq(top, 1, Min(4, Len(top)))

\* frequent = [w for w, _ in Counter(words).most_common(6) if w not in STOP_WORDS][:4]
frequent_topics(words) ==
    LET top  == most_common(Counter(words), 6)
        kept == SelectSeq([i \in 1..Len(top) |-> top[i][1]],
                          LAMBDA w : w \notin STOP_WORDS)
    IN  SubSeq(kept, 1, Min(4, Len(kept)))

NoNewsSentence == <<"Za poslednie sutki zametnyh AI-novostej ne najdeno.">>
TopicsPlaceholder == <<"modeli, produkty i vnedrenie AI">>
SummaryHead == <<"Za poslednie 24 chasa v AI bylo mnogo aktivnosti: sobrano ">>
SummaryMid == <<" kljuchevyh novostej. Chashhe vsego vstrechajutsja temy: ">>
SummaryTail == <<". Otkrojte kartochki nizhe, chtoby bystro perejti k pervoistochnikam.">>

\* the f-string of build_daily_summary
render_summary(count, freq) ==
    LET topics == IF freq # << >> THEN join(<<","," ">>, freq) ELSE TopicsPlaceholder
    IN  SummaryHead \o str_int(count) \o SummaryMid \o topics \o SummaryTail

build_daily_summary(its) ==
    IF its = << >> THEN NoNewsSentence
    ELSE render_summary(Len(its), frequent_topics(title_words(its)))

----------------------------------------------------------------------------
(* The feed document, as xml.etree.ElementTree holds it.  An element is    *)
(* [tag, text, children]; text is None for an element without text.        *)

Elem(tag, text, children) == [tag |-> tag, text |-> text, children |-> children]
Leaf(tag, text) == Elem(tag, text, << >>)

\* Element.findall(tag): the direct children with that tag, in document order
ET_findall(children, tag) == SelectSeq(children, LAMBDA e : e.tag = tag)

\* Element.findtext(tag): None without such a child, else its text or ""
ET_findtext(el, tag) ==
    LET found == ET_findall(el.children, tag)
    IN  IF found = << >> THEN None
        ELSE IF found[1].text = None THEN << >> ELSE found[1].text

\* x or d, for x a str or None
py_or(x, d) == IF x = None \/ x = << >> THEN d ELSE x

\* a changed py_slice: xs[:n + 1]
py_slice_one_more(xs, n) == SubSeq(xs, 1, Min(n + 1, Len(xs)))

\* xs[:n] for n >= 0
py_slice(xs, n) == SubSeq(xs, 1, Min(n, Len(xs)))

\* The dates email.utils.parsedate_to_datetime parses, among those of the model,
\* each with parsedate_to_datetime(d).astimezone(timezone.utc).isoformat()
\* "Mon, 02 Jan 2006 15:04:05 GMT"
RFC2822_GMT == <<"M","o","n",","," ","0","2"," ","J","a","n"," ","2","0","0","6"," ","1","5",":","0","4",":","0","5"," ","G","M","T">>
\* "Tue, 03 Jan 2006 00:30:00 +0100"
RFC2822_CET == <<"T","u","e",","," ","0","3"," ","J","a","n"," ","2","0","0","6"," ","0","0",":","3","0",":","0","0"," ","+","0","1","0","0">>
Parseable == {RFC2822_GMT, RFC2822_CET}

utc_isoformat(d) ==
    \* "2006-01-02T15:04:05+00:00"
    IF d = RFC2822_GMT THEN <<"2","0","0","6","-","0","1","-","0","2","T","1","5",":","0","4",":","0","5","+","0","0",":","0","0">>
    \* "2006-01-02T23:30:00+00:00"
    ELSE <<"2","0","0","6","-","0","1","-","0","2","T","2","3",":","3","0",":","0","0","+","0","0",":","0","0">>

\* published_at of fetch_ai_news: the try block and its except
published_at_of(pub_date_raw) ==
    IF pub_date_raw \in Parseable
    \* "+00:00", "Z"
    THEN replace(utc_isoformat(pub_date_raw), <<"+","0","0",":","0","0">>, <<"Z">>)
    ELSE pub_date_raw

\* the source field of an item
\* "Unknown source"
source_of(item) == strip(py_or(ET_findtext(item, "source"), <<"U","n","k","n","o","w","n"," ","s","o","u","r","c","e">>))

\* the body of the for loop of fetch_ai_news
news_item_of(item) ==
    [title        |-> strip(py_or(ET_findtext(item, "title"), << >>)),
     url          |-> strip(py_or(ET_findtext(item, "link"), << >>)),
     source       |-> source_of(item),
     published_at |-> published_at_of(strip(py_or(ET_findtext(item, "pubDate"), << >>)))]

\* What the read of the feed gives: a parsed document, or the exception that
\* urlopen, response.read or ET.fromstring raises
FetchErrors == {"network_error", "timeout", "http_error", "malformed_xml"}
Failure(kind) == [kind |-> kind, root |-> << >>]
Document(root) == [kind |-> "doc", root |-> root]

Returned(value) == [raised |-> FALSE, value |-> value]
Raised(kind) == [raised |-> TRUE, value |-> <<kind>>]

fetch_ai_news(resp, lim) ==
    IF resp.kind # "doc" THEN Raised(resp.kind)
    ELSE LET channels == ET_findall(resp.root, "channel")
         IN  IF channels = << >> THEN Returned(<< >>)
             ELSE LET els == py_slice(ET_findall(channels[1].children, "item"), lim)
                  IN  Returned([i \in 1..Len(els) |-> news_item_of(els[i])])

----------------------------------------------------------------------------
(* fetch_ai_news on feed documents built one element at a time *)

MaxLimit == 2       \* limits tried besides MAX_ITEMS

\* "https://example.org/a"
LINK == <<"h","t","t","p","s",":","/","/","e","x","a","m","p","l","e",".","o","r","g","/","a">>

ItemA == Elem("item", None,
              \* "AI model beats benchmark"
              <<Leaf("title", <<"A","I"," ","m","o","d","e","l"," ","b","e","a","t","s"," ","b","e","n","c","h","m","a","r","k">>), Leaf("link", LINK),
                \* "Reuters"
                Leaf("source", <<"R","e","u","t","e","r","s">>), Leaf("pubDate", RFC2822_GMT)>>)
\* no children at all
ItemBare == Elem("item", None, << >>)
\* empty elements: <title/>, <source></source>, <pubDate/>
ItemEmpty == Elem("item", None,
              <<Leaf("title", None), Leaf("link", None),
                Leaf("source", None), Leaf("pubDate", None)>>)
\* whitespace only
ItemBlank == Elem("item", None,
              <<Leaf("title", <<" "," ">>), Leaf("link", <<" ">>),
                Leaf("source", <<" "," ">>), Leaf("pubDate", <<" ">>)>>)
\* padded texts, a date that does not parse
ItemPadded == Elem("item", None,
              \* " New AI model released "
              <<Leaf("title", <<" ","N","e","w"," ","A","I"," ","m","o","d","e","l"," ","r","e","l","e","a","s","e","d"," ">>), Leaf("link", LINK),
                \* " The Verge ", " not a date "
                Leaf("source", <<" ","T","h","e"," ","V","e","r","g","e"," ">>), Leaf("pubDate", <<" ","n","o","t"," ","a"," ","d","a","t","e"," ">>)>>)
ItemGarbage == Elem("item", None,
              \* "The new AI for the enterprise"
              <<Leaf("title", <<"T","h","e"," ","n","e","w"," ","A","I"," ","f","o","r"," ","t","h","e"," ","e","n","t","e","r","p","r","i","s","e">>), Leaf("link", LINK),
                \* "yesterday", "Wire"
                Leaf("pubDate", <<"y","e","s","t","e","r","d","a","y">>), Leaf("source", <<"W","i","r","e">>)>>)
\* a padded date with an offset, two source elements
ItemOffset == Elem("item", None,
              \* " Tue, 03 Jan 2006 00:30:00 +0100 "
              <<Leaf("pubDate", <<" ","T","u","e",","," ","0","3"," ","J","a","n"," ","2","0","0","6"," ","0","0",":","3","0",":","0","0"," ","+","0","1","0","0"," ">>),
                \* "AP", "Second"
                Leaf("source", <<"A","P">>), Leaf("source", <<"S","e","c","o","n","d">>),
                \* "AI is the new AI"
                Leaf("title", <<"A","I"," ","i","s"," ","t","h","e"," ","n","e","w"," ","A","I">>)>>)
\* "AI - Google News"
ChannelTitle == Leaf("title", <<"A","I"," ","-"," ","G","o","o","g","l","e"," ","N","e","w","s">>)

FeedElements ==
    {ItemA, ItemBare, ItemEmpty, ItemBlank, ItemPadded, ItemGarbage, ItemOffset,
     ChannelTitle}

\* the n-th item of a long feed
NumberedItem(n) ==
    Elem("item", None,
         \* "Story "
         <<Leaf("title", <<"S","t","o","r","y"," ">> \o str_int(n)), Leaf("link", LINK),
           \* "Reuters"
           Leaf("source", <<"R","e","u","t","e","r","s">>), Leaf("pubDate", RFC2822_GMT)>>)

DocNoChannel == Document(<< >>)
\* "Moved"
DocOtherRoot == Document(<<Leaf("title", <<"M","o","v","e","d">>)>>)
Channel(children) == Document(<<Elem("channel", None, children)>>)

HasChannel(doc) == doc.kind = "doc" /\ ET_findall(doc.root, "channel") # << >>
ChannelChildren(doc) == ET_findall(doc.root, "channel")[1].children
ItemsOf(doc) == ET_findall(ChannelChildren(doc), "item")

Limits == (0..MaxLimit) \cup {MAX_ITEMS}

----------------------------------------------------------------------------
(* Handler.do_GET *)

\* s.find(c) + 1: the first position of c in s, 0 without one
Find(s, c) ==
    IF \E i \in 1..Len(s) : s[i] = c
    THEN CHOOSE i \in 1..Len(s) : s[i] = c /\ \A j \in 1..(i - 1) : s[j] # c
    ELSE 0

\* s.rfind(c) + 1
RFind(s, c) ==
    IF \E i \in 1..Len(s) : s[i] = c
    THEN CHOOSE i \in 1..Len(s) : s[i] = c /\ \A j \in (i + 1)..Len(s) : s[j] # c
    ELSE 0

\* s.split(c, 1)[0]
UpTo(s, c) == IF Find(s, c) = 0 THEN s ELSE SubSeq(s, 1, Find(s, c) - 1)

\* urllib.parse._splitparams(url)[0]: the parameters of the last segment cut off
splitparams(url) ==
    LET from  == IF RFind(url, "/") > 0 THEN RFind(url, "/") ELSE 1
        semis == {i \in from..Len(url) : url[i] = ";"}
    IN  IF semis = {} THEN url
        ELSE SubSeq(url, 1, (CHOOSE i \in semis : \A j \in semis : i <= j) - 1)

\* a changed urlparse_path: the route is self.path as it came
urlparse_path_whole_target(url) == url

\* urlparse(url).path for a request target that starts with one "/": no scheme
\* and no netloc; the fragment, then the query, then the parameters are cut off
urlparse_path(url) == splitparams(UpTo(UpTo(url, "#"), "?"))

INDEX_HTML == "templates/index.html"
STYLES_CSS == "static/styles.css"
HTML_TYPE == "text/html; charset=utf-8"
CSS_TYPE == "text/css; charset=utf-8"
JSON_TYPE == "application/json; charset=utf-8"
ERROR_TYPE == "text/html;charset=utf-8"

\* A response the handler started: send_response(status), the Content-Type
\* header, the body handed to wfile.write; complete is FALSE when a write raised
Response(status, ctype, body, complete) ==
    [status |-> status, ctype |-> ctype, body |-> body, complete |-> complete]

send_json(data, status, complete) == Response(status, JSON_TYPE, data, complete)

serve_file(path, content_type, complete) ==
    Response(200, content_type, [file |-> path], complete)

send_error(code, message, complete) ==
    Response(code, ERROR_TYPE, [message |-> message], complete)

\* datetime.now(timezone.utc).isoformat().replace("+00:00", "Z") at instant n
\* "T", "+00:00", "+00:00", "Z"
utc_now(n) == replace(<<"T">> \o str_int(n) \o <<"+","0","0",":","0","0">>, <<"+","0","0",":","0","0">>, <<"Z">>)

FallbackTitles ==
    \* "Open-source AI models continue improving multimodal reasoning"
    << <<"O","p","e","n","-","s","o","u","r","c","e"," ","A","I"," ","m","o","d","e","l","s"," ","c","o","n","t","i","n","u","e"," ","i","m","p","r","o","v","i","n","g"," ","m","u","l","t","i","m","o","d","a","l"," ","r","e","a","s","o","n","i","n","g">>,
       \* "Enterprise adoption of AI copilots expands across industries"
       <<"E","n","t","e","r","p","r","i","s","e"," ","a","d","o","p","t","i","o","n"," ","o","f"," ","A","I"," ","c","o","p","i","l","o","t","s"," ","e","x","p","a","n","d","s"," ","a","c","r","o","s","s"," ","i","n","d","u","s","t","r","i","e","s">>,
       \* "Governments discuss new frameworks for safe AI deployment"
       <<"G","o","v","e","r","n","m","e","n","t","s"," ","d","i","s","c","u","s","s"," ","n","e","w"," ","f","r","a","m","e","w","o","r","k","s"," ","f","o","r"," ","s","a","f","e"," ","A","I"," ","d","e","p","l","o","y","m","e","n","t">> >>

fallback_news(now) ==
    [i \in 1..Len(FallbackTitles) |->
        \* "https://news.google.com/"
        [title |-> FallbackTitles[i], url |-> <<"h","t","t","p","s",":","/","/","n","e","w","s",".","g","o","o","g","l","e",".","c","o","m","/">>,
         \* "Fallback digest"
         source |-> <<"F","a","l","l","b","a","c","k"," ","d","i","g","e","s","t">>, published_at |-> now]]

FallbackSummary ==
    <<"Onlajn-istochnik novostej vremenno nedostupen, pokazan rezervnyj dajdzhest.">>

Digest(generated_at, summ, its) ==
    [generated_at |-> generated_at, summary |-> summ, items |-> its]

\* the response of the try block of /api/news
live_response(now, its, complete) ==
    send_json(Digest(now, build_daily_summary(its), its), 200, complete)

\* a changed fallback_response: the fallback is answered 503
fallback_response_503(now, its, complete) ==
    send_json(Digest(now, FallbackSummary, its), 503, complete)

\* a changed fallback_response: the summary is built from the fallback items
fallback_response_summarized(now, its, complete) ==
    send_json(Digest(now, build_daily_summary(its), its), 200, complete)

\* the response of its except block
fallback_response(now, its, complete) ==
    send_json(Digest(now, FallbackSummary, its), 200, complete)

\* the chain of ifs of do_GET
dispatch(rt) ==
    IF rt = <<"/">> THEN "serve_index"
    \* "/static/styles.css"
    ELSE IF rt = <<"/","s","t","a","t","i","c","/","s","t","y","l","e","s",".","c","s","s">> THEN "serve_css"
    \* "/api/news"
    ELSE IF rt = <<"/","a","p","i","/","n","e","w","s">> THEN "api_news"
    ELSE "not_found"

Threads == 1..NumThreads

\* a request arrives: route = urlparse(self.path).path, and the branch is taken
Request(r, t) ==
    /\ pc[r] = "idle"
    /\ target' = [target EXCEPT ![r] = t]
    /\ route' = [route EXCEPT ![r] = urlparse_path(t)]
    /\ pc' = [pc EXCEPT ![r] = dispatch(urlparse_path(t))]
    /\ UNCHANGED <<upstream, items, sent, reads, clock,
                   fetch_vars, summary_vars, phase>>

\* _serve_file: path.read_bytes() may raise, and so may a write
ServeFile(r) ==
    /\ pc[r] \in {"serve_index", "serve_css"}
    /\ \E readable \in BOOLEAN, complete \in BOOLEAN :
         LET path  == IF pc[r] = "serve_index" THEN INDEX_HTML ELSE STYLES_CSS
             ctype == IF pc[r] = "serve_index" THEN HTML_TYPE ELSE CSS_TYPE
         IN  /\ reads' = [reads EXCEPT ![r] = Append(@, path)]
             /\ sent' = [sent EXCEPT ![r] =
                           IF readable THEN Append(@, serve_file(path, ctype, complete))
                           ELSE @]
             /\ pc' = [pc EXCEPT ![r] =
                           IF readable /\ complete THEN "done" ELSE "raised"]
    /\ UNCHANGED <<target, route, upstream, items, clock,
                   fetch_vars, summary_vars, phase>>

\* self.send_error(404, "Not found")
NotFound(r) ==
    /\ pc[r] = "not_found"
    /\ \E complete \in BOOLEAN :
         /\ sent' = [sent EXCEPT ![r] = Append(@, send_error(404, "Not found", complete))]
         /\ pc' = [pc EXCEPT ![r] = IF complete THEN "done" ELSE "raised"]
    /\ UNCHANGED <<target, route, upstream, items, reads, clock,
                   fetch_vars, summary_vars, phase>>

\* items = fetch_ai_news(), in the try block
Fetch(r, resp) ==
    /\ pc[r] = "api_news"
    /\ upstream' = [upstream EXCEPT ![r] = resp]
    /\ LET got == fetch_ai_news(resp, MAX_ITEMS)
       IN  /\ items' = [items EXCEPT ![r] = IF got.raised THEN @ ELSE got.value]
           /\ pc' = [pc EXCEPT ![r] = IF got.raised THEN "except" ELSE "send_live"]
    /\ UNCHANGED <<target, route, sent, reads, clock,
                   fetch_vars, summary_vars, phase>>

\* return self._send_json({...}), still in the try block: a write that raises
\* (the client has gone away, the socket was reset) is caught by the except
\* clause.  Each write fails or succeeds on its own; what was written before
\* the failure stays in sent[r] as a response that is not complete.
SendLive(r) ==
    /\ pc[r] = "send_live"
    /\ \E complete \in BOOLEAN :
         /\ sent' = [sent EXCEPT ![r] =
                       Append(@, live_response(utc_now(clock), items[r], complete))]
         /\ pc' = [pc EXCEPT ![r] = IF complete THEN "done" ELSE "except"]
    /\ UNCHANGED <<target, route, upstream, items, reads, clock,
                   fetch_vars, summary_vars, phase>>

\* except Exception: items = fallback_news()
Fallback(r) ==
    /\ pc[r] = "except"
    /\ items' = [items EXCEPT ![r] = fallback_news(utc_now(clock))]
    /\ pc' = [pc EXCEPT ![r] = "send_fallback"]
    /\ UNCHANGED <<target, route, upstream, sent, reads, clock,
                   fetch_vars, summary_vars, phase>>

\* return self._send_json({...}) of the except block: a write that raises
\* leaves do_GET
SendFallback(r) ==
    /\ pc[r] = "send_fallback"
    /\ \E complete \in BOOLEAN :
         /\ sent' = [sent EXCEPT ![r] =
                       Append(@, fallback_response(utc_now(clock), items[r], complete))]
         /\ pc' = [pc EXCEPT ![r] = IF complete THEN "done" ELSE "raised"]
    /\ UNCHANGED <<target, route, upstream, items, reads, clock,
                   fetch_vars, summary_vars, phase>>

\* time passes
Tick ==
    /\ phase = "server"
    /\ clock < MaxClock
    /\ clock' = clock + 1
    /\ UNCHANGED <<pc, target, route, upstream, items, sent, reads,
                   fetch_vars, summary_vars, phase>>

----------------------------------------------------------------------------
(* Request targets and feeds *)

TargetPaths ==
    \* "/", "/static/styles.css", "/api/news", "/nonexistent", "/api/news/"
    { <<"/">>, <<"/","s","t","a","t","i","c","/","s","t","y","l","e","s",".","c","s","s">>, <<"/","a","p","i","/","n","e","w","s">>, <<"/","n","o","n","e","x","i","s","t","e","n","t">>, <<"/","a","p","i","/","n","e","w","s","/">>,
      \* "/api", "/index.html", "/API/NEWS", "/static/", "/api;v=1/news"
      <<"/","a","p","i">>, <<"/","i","n","d","e","x",".","h","t","m","l">>, <<"/","A","P","I","/","N","E","W","S">>, <<"/","s","t","a","t","i","c","/">>, <<"/","a","p","i",";","v","=","1","/","n","e","w","s">> }
TargetParams == {None, <<"v","=","1">>}
\* "", "q=AI", "/api/news", "a;b"
TargetQueries == {None, << >>, <<"q","=","A","I">>, <<"/","a","p","i","/","n","e","w","s">>, <<"a",";","b">>}
\* "top", "/api/news?x"
TargetFragments == {None, <<"t","o","p">>, <<"/","a","p","i","/","n","e","w","s","?","x">>}

TargetParts ==
    [path : TargetPaths, params : TargetParams, query : TargetQueries,
     fragment : TargetFragments]

\* path[;params][?query][#fragment]
Assemble(p) ==
    p.path
    \o (IF p.params = None THEN << >> ELSE <<";">> \o p.params)
    \o (IF p.query = None THEN << >> ELSE <<"?">> \o p.query)
    \o (IF p.fragment = None THEN << >> ELSE <<"#">> \o p.fragment)

Targets == {Assemble(p) : p \in TargetParts}

LongFeed == Channel([n \in 1..(MAX_ITEMS + 1) |-> NumberedItem(n)])

Upstreams ==
    {Failure(k) : k \in FetchErrors}
    \cup { DocNoChannel, DocOtherRoot, Channel(<< >>), Channel(<<ChannelTitle>>),
           Channel(<<ChannelTitle, ItemA>>), Channel(<<ItemGarbage, ItemA>>),
           Channel(<<ItemBare, ItemOffset>>), Channel(<<ItemBlank>>),
           Channel(<<ItemPadded, ItemEmpty, ItemA>>), LongFeed }

\* the inputs of the threaded server
\* "/", "/static/styles.css", "/api/news", "/nonexistent"
FewTargets == { <<"/">>, <<"/","s","t","a","t","i","c","/","s","t","y","l","e","s",".","c","s","s">>, <<"/","a","p","i","/","n","e","w","s">>, <<"/","n","o","n","e","x","i","s","t","e","n","t">> }
FewUpstreams == { Failure("timeout"), DocNoChannel, Channel(<<ItemA>>) }

----------------------------------------------------------------------------
(* Specifications *)

IdleServer ==
    /\ pc = [r \in Threads |-> "idle"]
    /\ target = [r \in Threads |-> None]
    /\ route = [r \in Threads |-> None]
    /\ upstream = [r \in Threads |-> Failure("none")]
    /\ items = [r \in Threads |-> None]
    /\ sent = [r \in Threads |-> << >>]
    /\ reads = [r \in Threads |-> << >>]
    /\ clock = 0

IdleFetch == xml = DocNoChannel /\ limit = 0 /\ fetched = Raised("none")

IdleSummary == news_items = << >> /\ frequent = None /\ summary = None

\* The threaded server: every thread handles one request, in any interleaving
Init == IdleServer /\ IdleFetch /\ IdleSummary /\ phase = "server"

Next ==
    \/ \E r \in Threads : \E t \in FewTargets : Request(r, t)
    \/ \E r \in Threads : ServeFile(r)
    \/ \E r \in Threads : NotFound(r)
    \/ \E r \in Threads : \E resp \in FewUpstreams : Fetch(r, resp)
    \/ \E r \in Threads : SendLive(r)
    \/ \E r \in Threads : Fallback(r)
    \/ \E r \in Threads : SendFallback(r)
    \/ Tick

Spec == Init /\ [][Next]_vars

\* One request, with every target and every feed of the model
NextRequest ==
    \/ \E t \in Targets : Request(1, t)
    \/ ServeFile(1)
    \/ NotFound(1)
    \/ \E resp \in Upstreams : Fetch(1, resp)
    \/ SendLive(1)
    \/ Fallback(1)
    \/ SendFallback(1)
    \/ Tick

SpecRequest == Init /\ [][NextRequest]_vars

\* fetch_ai_news on the feeds built from FeedElements, then numbered items
InitFetch ==
    /\ IdleServer /\ IdleSummary
    /\ phase = "input"
    /\ xml \in {DocNoChannel, DocOtherRoot, Channel(<< >>)}
              \cup {Failure(k) : k \in FetchErrors}
    /\ limit = 0
    /\ fetched = Raised("none")

AddChild(e) ==
    /\ phase = "input"
    /\ HasChannel(xml)
    /\ Len(ChannelChildren(xml)) < MaxFeed
    /\ xml' = Channel(Append(ChannelChildren(xml), e))
    /\ UNCHANGED <<limit, fetched, phase, server_vars, summary_vars>>

AddNumberedItem ==
    /\ phase = "input"
    /\ HasChannel(xml)
    /\ Len(ChannelChildren(xml)) >= MaxFeed
    /\ Len(ItemsOf(xml)) <= MAX_ITEMS
    /\ xml' = Channel(Append(ChannelChildren(xml),
                             NumberedItem(Len(ChannelChildren(xml)) + 1)))
    /\ UNCHANGED <<limit, fetched, phase, server_vars, summary_vars>>

CallFetch(lim) ==
    /\ phase = "input"
    /\ phase' = "called"
    /\ limit' = lim
    /\ fetched' = fetch_ai_news(xml, lim)
    /\ UNCHANGED <<xml, server_vars, summary_vars>>

NextFetch ==
    \/ \E e \in FeedElements : AddChild(e)
    \/ AddNumberedItem
    \/ \E lim \in Limits : CallFetch(lim)

SpecFetch == InitFetch /\ [][NextFetch]_vars

\* build_daily_summary on every sequence of up to MaxNews items
Titles ==
    \* "AI model beats benchmark"
    { <<"A","I"," ","m","o","d","e","l"," ","b","e","a","t","s"," ","b","e","n","c","h","m","a","r","k">>,
      \* "New AI model released"
      <<"N","e","w"," ","A","I"," ","m","o","d","e","l"," ","r","e","l","e","a","s","e","d">>,
      \* "The new AI for the enterprise"
      <<"T","h","e"," ","n","e","w"," ","A","I"," ","f","o","r"," ","t","h","e"," ","e","n","t","e","r","p","r","i","s","e">>,
      \* "AI is the new AI"
      <<"A","I"," ","i","s"," ","t","h","e"," ","n","e","w"," ","A","I">>,
      \* "GPT-4o's x-ray A to Z"
      <<"G","P","T","-","4","o","'","s"," ","x","-","r","a","y"," ","A"," ","t","o"," ","Z">>,
      << >> }

NewsItem(t) ==
    \* "Wire"
    [title |-> t, url |-> LINK, source |-> <<"W","i","r","e">>,
     \* "2006-01-02T15:04:05Z"
     published_at |-> <<"2","0","0","6","-","0","1","-","0","2","T","1","5",":","0","4",":","0","5","Z">>]

InitSummary == IdleServer /\ IdleFetch /\ IdleSummary /\ phase = "input"

AddNewsItem(t) ==
    /\ phase = "input"
    /\ Len(news_items) < MaxNews
    /\ news_items' = Append(news_items, NewsItem(t))
    /\ UNCHANGED <<frequent, summary, phase, server_vars, fetch_vars>>

Summarize ==
    /\ phase = "input"
    /\ phase' = "called"
    /\ frequent' = IF news_items = << >> THEN None
                   ELSE frequent_topics(title_words(news_items))
    /\ summary' = build_daily_summary(news_items)
    /\ UNCHANGED <<news_items, server_vars, fetch_vars>>

NextSummary ==
    \/ \E t \in Titles : AddNewsItem(t)
    \/ Summarize

SpecSummary == InitSummary /\ [][NextSummary]_vars

----------------------------------------------------------------------------
(* Properties *)

\* "/api/news"
API_NEWS == <<"/","a","p","i","/","n","e","w","s">>

FetchFailed(r) == upstream[r].kind \in FetchErrors
FetchReturned(r) == upstream[r].kind = "doc"

\* the responses thread r has started
Responses(r) == {sent[r][i] : i \in 1..Len(sent[r])}

\* C1: every response the handler starts for a request whose path is /api/news
\* has status 200, whatever the fetch gave (items, no items, a network error, a
\* timeout, a non-2xx answer, malformed XML), and a handler that returns has
\* written one completely.
C1_ApiNewsAlways200 ==
    \A r \in Threads :
        route[r] = API_NEWS =>
            /\ (\A resp \in Responses(r) : resp.status = 200)
            /\ pc[r] = "done" =>
                   /\ sent[r] # << >>
                   /\ sent[r][Len(sent[r])].complete

\* a request for /api/news whose feed was malformed XML has been answered 200
C1_Witness ==
    /\ route[1] = API_NEWS
    /\ upstream[1].kind = "malformed_xml"
    /\ pc[1] = "done"
    /\ Len(sent[1]) = 1
    /\ sent[1][1].status = 200

IsFallbackItems(its) ==
    /\ Len(its) = 3
    /\ \A i \in 1..3 :
         \* "Fallback digest"
         /\ its[i].source = <<"F","a","l","l","b","a","c","k"," ","d","i","g","e","s","t">>
         \* "https://news.google.com/"
         /\ its[i].url = <<"h","t","t","p","s",":","/","/","n","e","w","s",".","g","o","o","g","l","e",".","c","o","m","/">>
         /\ its[i].title = FallbackTitles[i]
         /\ its[i].published_at = its[1].published_at

\* C2: when the fetch of an /api/news request fails, the one response the
\* handler starts is JSON whose items are exactly the 3 fallback entries (source
\* "Fallback digest", url https://news.google.com/, one published_at for all
\* three) and whose summary is the fixed "temporarily unavailable" message, not
\* the Summary Builder's output for those items.
C2_FallbackOnFetchFailure ==
    \A r \in Threads :
        FetchFailed(r) =>
            /\ Len(sent[r]) <= 1
            /\ pc[r] = "done" => Len(sent[r]) = 1
            /\ (\A resp \in Responses(r) :
                   /\ resp.ctype = JSON_TYPE
                   /\ IsFallbackItems(resp.body.items)
                   /\ resp.body.summary = FallbackSummary
                   /\ resp.body.summary # build_daily_summary(resp.body.items))

\* a request whose fetch timed out has been answered, after the clock moved
C2_Witness ==
    /\ upstream[1].kind = "timeout"
    /\ pc[1] = "done"
    /\ Len(sent[1]) = 1
    /\ sent[1][1].body.items[3].published_at = utc_now(1)

\* what a thread may have done once do_GET took the branch of a static file
ServesOnly(r, path, ctype) ==
    /\ upstream[r].kind = "none"
    /\ \/ pc[r] \in {"serve_index", "serve_css"} /\ reads[r] = << >> /\ sent[r] = << >>
       \/ pc[r] = "raised" /\ reads[r] = <<path>> /\ sent[r] = << >>
       \/ /\ pc[r] \in {"done", "raised"}
          /\ reads[r] = <<path>>
          /\ sent[r] = <<Response(200, ctype, [file |-> path], pc[r] = "done")>>

\* ... the branch of /api/news
RunsPipeline(r) ==
    /\ reads[r] = << >>
    /\ pc[r] \in {"api_news", "send_live", "except", "send_fallback", "done", "raised"}
    /\ pc[r] # "api_news" => upstream[r].kind # "none"
    /\ pc[r] \in {"done", "raised"} => sent[r] # << >>
    /\ (\A resp \in Responses(r) : resp.ctype = JSON_TYPE)

\* ... the 404 at the end
AnswersNotFound(r) ==
    /\ upstream[r].kind = "none"
    /\ reads[r] = << >>
    /\ \/ pc[r] = "not_found" /\ sent[r] = << >>
       \/ /\ pc[r] \in {"done", "raised"}
          /\ sent[r] = <<Response(404, ERROR_TYPE, [message |-> "Not found"],
                                  pc[r] = "done")>>

\* C3: the branch do_GET takes depends on the path component of the request
\* target alone, whatever parameters, query string and fragment follow it: path
\* "/" serves the HTML document, "/static/styles.css" the stylesheet, "/api/news"
\* runs the fetch-summarize pipeline, and any other path is answered 404 without
\* a fetch and without a file read.
C3_RouteByPathOnly ==
    \A r \in Threads : \A p \in TargetParts :
        (pc[r] # "idle" /\ target[r] = Assemble(p)) =>
            IF p.path = <<"/">> THEN ServesOnly(r, INDEX_HTML, HTML_TYPE)
            \* "/static/styles.css"
            ELSE IF p.path = <<"/","s","t","a","t","i","c","/","s","t","y","l","e","s",".","c","s","s">> THEN ServesOnly(r, STYLES_CSS, CSS_TYPE)
            ELSE IF p.path = API_NEWS THEN RunsPipeline(r)
            ELSE AnswersNotFound(r)

\* /nonexistent with the query string /api/news has been answered 404
C3_Witness ==
    \* "/nonexistent?/api/news"
    /\ target[1] = <<"/","n","o","n","e","x","i","s","t","e","n","t","?","/","a","p","i","/","n","e","w","s">>
    /\ pc[1] = "done"
    /\ sent[1][1].status = 404
    /\ upstream[1].kind = "none"

\* the item elements of the first channel of a document, in document order
ItemElements(doc) ==
    LET ch   == CHOOSE i \in 1..Len(doc.root) :
                    /\ doc.root[i].tag = "channel"
                    /\ \A j \in 1..(i - 1) : doc.root[j].tag # "channel"
        kids == doc.root[ch].children
    IN  SelectSeq(kids, LAMBDA e : e.tag = "item")

\* C4: for a feed whose channel holds K item elements, fetch_ai_news with limit
\* L returns exactly min(K, L) items, the i-th built from the i-th item element
\* in document order: all K when K <= 10 and L = 10, the first 10 when K > 10.
C4_FirstLimitItemsInOrder ==
    (phase = "called" /\ HasChannel(xml)) =>
        LET els == ItemElements(xml)
        IN  /\ ~fetched.raised
            /\ Len(fetched.value) = Min(Len(els), limit)
            /\ \A i \in 1..Len(fetched.value) :
                   fetched.value[i] = news_item_of(els[i])

\* a feed of 11 items fetched with the default limit gave its first 10
C4_Witness ==
    /\ phase = "called"
    /\ HasChannel(xml)
    /\ Len(ItemElements(xml)) = MAX_ITEMS + 1
    /\ limit = MAX_ITEMS
    /\ Len(fetched.value) = MAX_ITEMS
    \* "Story 10"
    /\ fetched.value[MAX_ITEMS].title = <<"S","t","o","r","y"," ","1","0">>

\* v comes before w in the ranking of the words ws: more occurrences, or as many
\* and a first occurrence further left
RanksBefore(ws, v, w) ==
    LET first(x) == CHOOSE i \in 1..Len(ws) :
                        ws[i] = x /\ \A j \in 1..(i - 1) : ws[j] # x
    IN  \/ CountOf(ws, v) > CountOf(ws, w)
        \/ CountOf(ws, v) = CountOf(ws, w) /\ first(v) < first(w)

\* the words among the first 6 of the ranking that are no stop words
Survivors(ws) ==
    LET tokens == {ws[i] : i \in 1..Len(ws)}
    IN  {w \in tokens :
            /\ Cardinality({v \in tokens : RanksBefore(ws, v, w)}) < 6
            /\ w \notin STOP_WORDS}

\* topics is the first 4 of the survivors, in ranking order
IsTopicList(ws, topics) ==
    /\ Len(topics) = Min(4, Cardinality(Survivors(ws)))
    /\ \A i \in 1..Len(topics) :
         /\ topics[i] \in Survivors(ws)
         /\ Cardinality({v \in Survivors(ws) : RanksBefore(ws, v, topics[i])}) = i - 1

\* C5: for a non-empty sequence of items, the topics build_daily_summary renders
\* are the tokens of the lowercased, space-joined titles ranked by descending
\* count (ties in first-encountered order), cut to the first 6, without the stop
\* words, cut to the first 4: no stop word, at most 4 tokens, and every
\* non-stop-word token that is in the first 6 and among the first 4 left.
C5_TopicsRankedCutFiltered ==
    (phase = "called" /\ news_items # << >>) =>
        LET ws == re_findall(lower(join(<<" ">>, [i \in 1..Len(news_items) |->
                                                   news_items[i].title])))
        IN  /\ IsTopicList(ws, frequent)
            /\ Len(frequent) <= 4
            /\ \A i \in 1..Len(frequent) : frequent[i] \notin STOP_WORDS
            /\ summary = SummaryHead \o str_int(Len(news_items)) \o SummaryMid
                         \o (IF frequent = << >> THEN TopicsPlaceholder
                             ELSE join(<<","," ">>, frequent))
                         \o SummaryTail

\* the two titles of the specification's example: "model" is a topic
C5_Witness ==
    /\ phase = "called"
    /\ Len(news_items) = 2
    \* "AI model beats benchmark"
    /\ news_items[1].title = <<"A","I"," ","m","o","d","e","l"," ","b","e","a","t","s"," ","b","e","n","c","h","m","a","r","k">>
    \* "New AI model released"
    /\ news_items[2].title = <<"N","e","w"," ","A","I"," ","m","o","d","e","l"," ","r","e","l","e","a","s","e","d">>
    \* "model", "beats", "benchmark", "released"
    /\ frequent = << <<"m","o","d","e","l">>, <<"b","e","a","t","s">>, <<"b","e","n","c","h","m","a","r","k">>, <<"r","e","l","e","a","s","e","d">> >>

\* a document without a channel, or whose channel has no item element
NoItemElements(resp) ==
    resp.kind = "doc" /\ (~HasChannel(resp) \/ ItemElements(resp) = << >>)

IsLiveResponse(resp, its) ==
    /\ resp.status = 200
    /\ resp.ctype = JSON_TYPE
    /\ resp.body.items = its
    /\ resp.body.summary = build_daily_summary(its)

\* C6: when the feed parses but has no channel, or a channel without items, the
\* fetcher returns the empty sequence without failing and the /api/news response
\* is the live one, with no items and the "no notable items found" sentence; the
\* fallback items and the fallback message are not used.
C6_EmptyFeedAnsweredLive ==
    \A r \in Threads :
        NoItemElements(upstream[r]) =>
            /\ fetch_ai_news(upstream[r], MAX_ITEMS) = Returned(<< >>)
            /\ items[r] = << >>
            /\ (\A resp \in Responses(r) :
                   /\ resp.body.items = << >>
                   /\ resp.body.summary = NoNewsSentence)

\* What holds of C6 in the code: the first response started is the live one
EmptyFeedFirstAnsweredLive ==
    \A r \in Threads :
        NoItemElements(upstream[r]) =>
            /\ fetch_ai_news(upstream[r], MAX_ITEMS) = Returned(<< >>)
            /\ pc[r] = "send_live" => items[r] = << >>
            /\ sent[r] # << >> =>
                   /\ sent[r][1].body.items = << >>
                   /\ sent[r][1].body.summary = NoNewsSentence

\* C7: the source of every item the fetcher returns is trimmed, is "Unknown
\* source" when the source element is missing or its text is empty, also when
\* empty once trimmed, and is never the empty string.
C7_SourceTrimmedNeverEmpty ==
    (phase = "called" /\ HasChannel(xml)) =>
        \A i \in 1..Len(fetched.value) :
            LET text == ET_findtext(ItemElements(xml)[i], "source")
                src  == fetched.value[i].source
            IN  /\ src = strip(src)
                /\ src # << >>
                \* "Unknown source"
                /\ (text = None \/ strip(text) = << >>) => src = <<"U","n","k","n","o","w","n"," ","s","o","u","r","c","e">>

\* What holds of C7 in the code: trimmed, and the default for a missing or
\* empty source element
SourceTrimmedDefaultWhenAbsent ==
    (phase = "called" /\ HasChannel(xml)) =>
        \A i \in 1..Len(fetched.value) :
            LET text == ET_findtext(ItemElements(xml)[i], "source")
                src  == fetched.value[i].source
            IN  /\ src = strip(src)
                \* "Unknown source"
                /\ (text = None \/ text = << >>) => src = <<"U","n","k","n","o","w","n"," ","s","o","u","r","c","e">>
                /\ src = << >> <=> (text # None /\ text # << >> /\ strip(text) = << >>)

\* the raw publish date of an item element: its pubDate text, trimmed as every
\* field is, "" without one
RawPubDate(el) == strip(py_or(ET_findtext(el, "pubDate"), << >>))

HasUnparseableDate(resp) ==
    /\ resp.kind = "doc"
    /\ HasChannel(resp)
    /\ \E i \in 1..Min(Len(ItemElements(resp)), MAX_ITEMS) :
           RawPubDate(ItemElements(resp)[i]) \notin Parseable

\* the items of a feed, each built from its own element alone
LiveItems(resp) ==
    LET els == ItemElements(resp)
    IN  [i \in 1..Min(Len(els), MAX_ITEMS) |-> news_item_of(els[i])]

\* C8: a publish date that does not parse (garbage, empty, missing) never fails
\* the fetch: the item is returned with published_at equal to the raw pubDate
\* string, the other items are returned as they are for a valid date, and the
\* /api/news request is answered from the live path, not the fallback.
C8_BadDateKeptRawAnsweredLive ==
    \A r \in Threads :
        HasUnparseableDate(upstream[r]) =>
            LET els == ItemElements(upstream[r])
            IN  /\ ~fetch_ai_news(upstream[r], MAX_ITEMS).raised
                /\ items[r] = LiveItems(upstream[r])
                /\ \A i \in 1..Len(items[r]) :
                       RawPubDate(els[i]) \notin Parseable =>
                           items[r][i].published_at = RawPubDate(els[i])
                /\ (\A resp \in Responses(r) : IsLiveResponse(resp, LiveItems(upstream[r])))

\* What holds of C8 in the code: the fetch returns, with the raw date kept, and
\* the first response started is the live one
BadDateKeptRawFirstAnsweredLive ==
    \A r \in Threads :
        HasUnparseableDate(upstream[r]) =>
            LET els  == ItemElements(upstream[r])
                got  == fetch_ai_news(upstream[r], MAX_ITEMS)
            IN  /\ ~got.raised
                /\ got.value = LiveItems(upstream[r])
                /\ \A i \in 1..Len(got.value) :
                       RawPubDate(els[i]) \notin Parseable =>
                           got.value[i].published_at = RawPubDate(els[i])
                /\ pc[r] = "send_live" => items[r] = got.value
                /\ sent[r] # << >> => IsLiveResponse(sent[r][1], got.value)

IsFallbackResponse(resp) ==
    /\ resp.ctype = JSON_TYPE
    /\ resp.body.summary = FallbackSummary
    /\ IsFallbackItems(resp.body.items)

\* C9: for every /api/news request the handler starts exactly one response; the
\* fallback response is produced only when the fetch itself failed, never after
\* the live response of the same request has begun to be sent.
C9_OneResponsePerRequest ==
    \A r \in Threads :
        route[r] = API_NEWS =>
            /\ Len(sent[r]) <= 1
            /\ pc[r] = "send_fallback" => FetchFailed(r)
            /\ (\A resp \in Responses(r) : IsFallbackResponse(resp) => FetchFailed(r))

\* What holds of C9 in the code: at most one live and one fallback response, the
\* fallback second only after a write of the live one raised
FallbackAfterLiveOnlyOnFailedWrite ==
    \A r \in Threads :
        route[r] = API_NEWS =>
            /\ Len(sent[r]) <= 2
            /\ Len(sent[r]) = 2 =>
                   /\ ~FetchFailed(r)
                   /\ ~sent[r][1].complete
                   /\ IsFallbackResponse(sent[r][2])

\* C10: in every interleaving of the request threads, the items and the summary
\* of each response are those of the request's own fetch: its own fetched items
\* and their summary when the fetch succeeded, the fallback when it failed.
C10_ResponseByOwnFetch ==
    \A r \in Threads :
        (\A resp \in Responses(r) :
            resp.ctype = JSON_TYPE =>
                IF FetchFailed(r) THEN IsFallbackResponse(resp)
                ELSE IsLiveResponse(resp, fetch_ai_news(upstream[r], MAX_ITEMS).value))

\* What holds of C10 in the code: a step of one thread leaves the state of every
\* other thread as it was
ThreadsIndependent ==
    [][\A r \in Threads :
          pc'[r] = pc[r] =>
              /\ target'[r] = target[r] /\ route'[r] = route[r]
              /\ upstream'[r] = upstream[r] /\ items'[r] = items[r]
              /\ sent'[r] = sent[r] /\ reads'[r] = reads[r]]_vars

=============================================================================
